---- MODULE Spec2Model ----
(***************************************************************************)
(* Model of the batch transcription pipeline of transcribe_mp3_v2.py:      *)
(* transcribe_folder walks the media files of a directory, skips the ones  *)
(* recorded in the processed list or whose three outputs exist, and for    *)
(* the others calls the Transcriber, writes .txt/.docx/.pdf, appends a     *)
(* SUCCESS line and records the path.  The disk (processed list, logs,     *)
(* artifacts) survives a run; the in-memory state does not.                *)
(*                                                                         *)
(* Spec is the command-line process with failing calls and interruptions.  *)
(* The other specifications add one kind of behaviour each: SpecDel output *)
(* files removed between runs, SpecCfg configuration errors, SpecIO        *)
(* failing appends, SpecText the processed list as bytes with appends cut  *)
(* short, SpecGui the threads of audio_to_text_gui, SpecCuda the loop of   *)
(* transcribe_audio_cuda, SpecStore repeated lines in the processed list,  *)
(* SpecTwin two runs that differ in their logs only, SpecFont the font of  *)
(* the PDF output.                                                         *)
(***************************************************************************)
EXTENDS Integers, Sequences, FiniteSets, TLC

\* ---------------------------------------------------------------- bounds
NumFiles == 3
MaxRuns == 2
MaxFaults == 1
MaxThreads == 2
MaxLines == 4

Files == 1..NumFiles          \* media files, numbered in os.walk order
Bases == 1..NumFiles          \* (directory, base name) pairs
TXT == 1
DOCX == 2
PDF == 3
Kinds == {TXT, DOCX, PDF}
Threads == 1..MaxThreads      \* the threads the window may start

VARIABLES
    base,               \* base[f]: the (dirpath, base_name) of file f
    plist,              \* processed_files.txt, a sequence of lines
    logS,               \* log_success.txt
    logE,               \* log_error.txt
    art,                \* art[b][k]: the output file of kind k for base b
    pc,                 \* position of the process
    run,                \* number of the current run
    i,                  \* the file the loop is at
    processed,          \* the in-memory set `processed`
    total, skipped_processed, skipped_existing, succeeded, failed,
    \* history of the current run, used only to state properties
    loaded,             \* the set load_processed_set returned
    art0,               \* the artifacts when the run started
    mark,               \* lengths of plist, logS, logE when the run started
    calls,              \* calls[f]: Transcriber invocations on f
    outcome,            \* outcome[f]: the terminal state f reached
    probe,              \* probe[f]: the output kinds found to exist for f
    failT,              \* files whose Transcriber call failed
    failW,              \* files with a failed artifact write
    partialW,           \* files whose failed write left a partial file
    crashAt,            \* the file whose SUCCESS line was appended and whose
                        \* path was not yet recorded when the run was
                        \* interrupted, 0 if there is none
    prev,               \* summary of the previous run
    faults,             \* failures and removals injected so far
    \* the processed list as the bytes of its file, for the runs in which
    \* an append may be cut short
    text,               \* the bytes of processed_files.txt
    written,            \* files whose whole line was appended to text
    torn,               \* an append to text was cut short
    \* the threads of audio_to_text_gui
    gui,                \* gui[t]: position, file and local variables of
                        \* the t-th thread started by the Start button
    \* two runs side by side
    twin,               \* twin.a, twin.b: the state of two runs that meet
                        \* the same outcomes of their calls; twin.i: the
                        \* file both are at
    \* the PDF font
    font                \* the font files of the machine, the font name a
                        \* run negotiated and the names it passed to save_pdf

disk == <<base, plist, logS, logE, art>>
counters == <<total, skipped_processed, skipped_existing, succeeded, failed>>
hist == <<loaded, art0, mark, calls, outcome, probe, failT, failW, partialW,
          crashAt, prev, faults>>
\* the state that only the other specifications of this module change
ext == <<text, written, torn, gui, twin, font>>
vars == <<base, plist, logS, logE, art, pc, run, i, processed,
          total, skipped_processed, skipped_existing, succeeded, failed,
          loaded, art0, mark, calls, outcome, probe, failT, failW, partialW,
          crashAt, prev, faults, text, written, torn, gui, twin,
          font>>

\* ---------------------------------------------------------------- helpers
Absent == [st |-> "absent", src |-> 0, run |-> 0]

\* os.path.exists(p): a partially written file exists as well
Exists(a) == a.st # "absent"

\* the probe looking for an output name no writer produces
AllOutputsExistWrongName(arts, b) == FALSE

\* all(os.path.exists(p) for p in [txt_path, docx_path, pdf_path])
AllOutputsExist(arts, b) == \A k \in Kinds : Exists(arts[b][k])

\* the kinds of output of base b that exist
ExistingKinds(arts, b) == {k \in Kinds : Exists(arts[b][k])}

\* the file opened in mode "w": what was there is lost
safe_log_appendTruncating(file, message) == <<message>>

\* the new line put before the lines that are there
safe_log_appendInFront(file, message) == <<message>> \o file

\* safe_log_append: one more line at the end of the file
safe_log_append(file, message) == Append(file, message)

\* the list looked for where it is not: nothing is loaded
load_processed_setNotFound(file) == {}

\* load_processed_set: the non-empty lines of the file, as a set
load_processed_set(file) == {file[j] : j \in 1..Len(file)}

\* bases are numbered in order of first appearance in the traversal
BaseAssignments ==
    {bf \in [Files -> Bases] :
        \A f \in Files :
            \/ \E g \in 1..(f-1) : bf[g] = bf[f]
            \/ bf[f] = Cardinality({bf[g] : g \in 1..(f-1)}) + 1}

SuccessLine(f) == [status |-> "SUCCESS", path |-> f]
ErrorLine(f) == [status |-> "ERROR", path |-> f]

\* probe[f] before the loop reached f or when f was skipped as processed
Unseen == {0}

\* a thread the Start button has not started yet
NotStarted == [pc |-> "none", i |-> 1, processed |-> {}, count |-> 0]

\* no pair of runs is being compared
NoTwin == [i |-> 0, faults |-> 0]

\* no run has negotiated a font; Arial is not installed
NoFont == [i |-> 0, run |-> 0, installed |-> FALSE, name |-> "none",
           probes |-> 0, used |-> <<>>]

NoPrev == [status |-> "none", clean |-> FALSE, partial |-> {},
           crashfile |-> 0]

Running == {"classify", "transcribe", "save_txt", "save_docx", "save_pdf",
            "log_success", "record"}

\* ---------------------------------------------------------------- Init
Init ==
    /\ base \in BaseAssignments
    /\ plist = <<>>
    /\ logS = <<>>
    /\ logE = <<>>
    /\ art = [b \in Bases |-> [k \in Kinds |-> Absent]]
    /\ pc = "idle"
    /\ run = 0
    /\ i = 1
    /\ processed = {}
    /\ total = 0 /\ skipped_processed = 0 /\ skipped_existing = 0
    /\ succeeded = 0 /\ failed = 0
    /\ loaded = {}
    /\ art0 = art
    /\ mark = [p |-> 0, s |-> 0, e |-> 0]
    /\ calls = [f \in Files |-> 0]
    /\ outcome = [f \in Files |-> "none"]
    /\ probe = [f \in Files |-> Unseen]
    /\ failT = {} /\ failW = {} /\ partialW = {}
    /\ crashAt = 0
    /\ prev = NoPrev
    /\ faults = 0
    /\ text = <<>>
    /\ written = {}
    /\ torn = FALSE
    /\ gui = [t \in Threads |-> NotStarted]
    /\ twin = NoTwin
    /\ font = NoFont

\* ---------------------------------------------------------------- actions
\* lines 166-197: a new process loads the processed list and zeroes the
\* counters
StartRun ==
    /\ pc \in {"idle", "done", "crashed", "aborted", "died"}
    /\ run < MaxRuns
    /\ run' = run + 1
    /\ processed' = load_processed_set(plist)
    /\ total' = 0 /\ skipped_processed' = 0 /\ skipped_existing' = 0
    /\ succeeded' = 0 /\ failed' = 0
    /\ i' = 1
    /\ pc' = "classify"
    /\ loaded' = load_processed_set(plist)
    /\ art0' = art
    /\ mark' = [p |-> Len(plist), s |-> Len(logS), e |-> Len(logE)]
    /\ calls' = [f \in Files |-> 0]
    /\ outcome' = [f \in Files |-> "none"]
    /\ probe' = [f \in Files |-> Unseen]
    /\ failT' = {} /\ failW' = {} /\ partialW' = {}
    /\ crashAt' = 0
    /\ prev' = IF pc = "idle" THEN NoPrev
               ELSE [status |-> pc,
                     clean |-> (failT = {} /\ failW = {}),
                     partial |-> partialW,
                     crashfile |-> crashAt]
    /\ UNCHANGED <<disk, faults>>
    /\ UNCHANGED ext

\* SkipProcessed without the `continue` of line 211
SkipProcessedFallsThrough ==
    /\ pc = "classify" /\ i \in Files
    /\ i \in processed
    /\ total' = total + 1
    /\ skipped_processed' = skipped_processed + 1
    /\ pc' = "transcribe"
    /\ UNCHANGED <<disk, run, i, processed, skipped_existing, succeeded,
                   failed, hist>>
    /\ UNCHANGED ext

\* the store check made after the artifact probe
SkipProcessedAfterProbe ==
    /\ pc = "classify" /\ i \in Files
    /\ i \in processed
    /\ total' = total + 1
    /\ IF AllOutputsExist(art, base[i])
       THEN /\ skipped_existing' = skipped_existing + 1
            /\ outcome' = [outcome EXCEPT ![i] = "skipped_existing"]
            /\ UNCHANGED skipped_processed
       ELSE /\ skipped_processed' = skipped_processed + 1
            /\ outcome' = [outcome EXCEPT ![i] = "skipped_processed"]
            /\ UNCHANGED skipped_existing
    /\ i' = i + 1
    /\ UNCHANGED <<disk, pc, run, processed, succeeded,
                   failed, loaded, art0, mark, calls, probe, failT, failW,
                   partialW, crashAt, prev, faults>>
    /\ UNCHANGED ext

\* lines 203-211: the file is in the processed set
SkipProcessed ==
    /\ pc = "classify" /\ i \in Files
    /\ i \in processed
    /\ total' = total + 1
    /\ skipped_processed' = skipped_processed + 1
    /\ outcome' = [outcome EXCEPT ![i] = "skipped_processed"]
    /\ i' = i + 1
    /\ UNCHANGED <<disk, pc, run, processed, skipped_existing, succeeded,
                   failed, loaded, art0, mark, calls, probe, failT, failW,
                   partialW, crashAt, prev, faults>>
    /\ UNCHANGED ext

\* SkipExisting without lines 222-223, as the loop of transcribe_audio_cuda
SkipExistingNoRecord ==
    /\ pc = "classify" /\ i \in Files
    /\ i \notin processed
    /\ AllOutputsExist(art, base[i])
    /\ total' = total + 1
    /\ skipped_existing' = skipped_existing + 1
    /\ outcome' = [outcome EXCEPT ![i] = "skipped_existing"]
    /\ probe' = [probe EXCEPT ![i] = ExistingKinds(art, base[i])]
    /\ i' = i + 1
    /\ UNCHANGED <<disk, pc, run, processed, skipped_processed,
                   succeeded, failed, loaded, art0, mark, calls, failT,
                   failW, partialW, crashAt, prev, faults>>
    /\ UNCHANGED ext

\* lines 203-225: the three outputs exist; the path is recorded
SkipExisting ==
    /\ pc = "classify" /\ i \in Files
    /\ i \notin processed
    /\ AllOutputsExist(art, base[i])
    /\ total' = total + 1
    /\ plist' = safe_log_append(plist, i)
    /\ processed' = processed \cup {i}
    /\ skipped_existing' = skipped_existing + 1
    /\ outcome' = [outcome EXCEPT ![i] = "skipped_existing"]
    /\ probe' = [probe EXCEPT ![i] = ExistingKinds(art, base[i])]
    /\ i' = i + 1
    /\ UNCHANGED <<base, logS, logE, art, pc, run, skipped_processed,
                   succeeded, failed, loaded, art0, mark, calls, failT,
                   failW, partialW, crashAt, prev, faults>>
    /\ UNCHANGED ext

\* lines 203-231: the file is to be transcribed
Eligible ==
    /\ pc = "classify" /\ i \in Files
    /\ i \notin processed
    /\ ~AllOutputsExist(art, base[i])
    /\ total' = total + 1
    /\ probe' = [probe EXCEPT ![i] = ExistingKinds(art, base[i])]
    /\ pc' = "transcribe"
    /\ UNCHANGED <<disk, run, i, processed, skipped_processed,
                   skipped_existing, succeeded, failed, loaded, art0, mark,
                   calls, outcome, failT, failW, partialW, crashAt, prev, faults>>
    /\ UNCHANGED ext

\* the except branch leaving the loop instead of going on
HandleExceptionBreak ==
    /\ logE' = safe_log_append(logE, ErrorLine(i))
    /\ failed' = failed + 1
    /\ outcome' = [outcome EXCEPT ![i] = "failed"]
    /\ i' = NumFiles + 1
    /\ pc' = "classify"

\* the except branch going back to the file that failed
HandleExceptionRetry ==
    /\ logE' = safe_log_append(logE, ErrorLine(i))
    /\ failed' = failed + 1
    /\ outcome' = [outcome EXCEPT ![i] = "failed"]
    /\ i' = i
    /\ pc' = "classify"

\* the except branch without the `failed += 1` of line 255
HandleExceptionNotCounted ==
    /\ logE' = safe_log_append(logE, ErrorLine(i))
    /\ failed' = failed
    /\ outcome' = [outcome EXCEPT ![i] = "failed"]
    /\ i' = i + 1
    /\ pc' = "classify"

\* lines 251-255: the except branch
HandleException ==
    /\ logE' = safe_log_append(logE, ErrorLine(i))
    /\ failed' = failed + 1
    /\ outcome' = [outcome EXCEPT ![i] = "failed"]
    /\ i' = i + 1
    /\ pc' = "classify"

\* the path recorded as soon as the text is there, before the outputs
TranscribeOkRecordFirst ==
    /\ pc = "transcribe"
    /\ calls' = [calls EXCEPT ![i] = @ + 1]
    /\ plist' = safe_log_append(plist, i)
    /\ processed' = processed \cup {i}
    /\ pc' = "save_txt"
    /\ UNCHANGED <<base, logS, logE, art, run, i, counters, loaded, art0,
                   mark, outcome, probe, failT, failW, partialW, crashAt,
                   prev, faults>>
    /\ UNCHANGED ext

\* line 234, the call returns
TranscribeOk ==
    /\ pc = "transcribe"
    /\ calls' = [calls EXCEPT ![i] = @ + 1]
    /\ pc' = "save_txt"
    /\ UNCHANGED <<disk, run, i, processed, counters, loaded, art0, mark,
                   outcome, probe, failT, failW, partialW, crashAt, prev, faults>>
    /\ UNCHANGED ext

\* line 234, the call raises
TranscribeFail ==
    /\ pc = "transcribe"
    /\ calls' = [calls EXCEPT ![i] = @ + 1]
    /\ failT' = failT \cup {i}
    /\ faults < MaxFaults
    /\ faults' = faults + 1
    /\ HandleException
    /\ UNCHANGED <<base, plist, logS, art, run, processed, total,
                   skipped_processed, skipped_existing, succeeded, loaded,
                   art0, mark, probe, failW, partialW, crashAt, prev>>
    /\ UNCHANGED ext

\* a writer that keeps a file that is already there
WriteOkReuse(k, nextpc) ==
    /\ art' = IF Exists(art[base[i]][k]) THEN art
              ELSE [art EXCEPT ![base[i]][k] =
                       [st |-> "complete", src |-> i, run |-> run]]
    /\ pc' = nextpc
    /\ UNCHANGED <<base, plist, logS, logE, run, i, processed, counters,
                   hist>>
    /\ UNCHANGED ext

\* a writer returns: the file holds the whole text of file i
WriteOk(k, nextpc) ==
    /\ art' = [art EXCEPT ![base[i]][k] =
                  [st |-> "complete", src |-> i, run |-> run]]
    /\ pc' = nextpc
    /\ UNCHANGED <<base, plist, logS, logE, run, i, processed, counters,
                   hist>>
    /\ UNCHANGED ext

\* a writer whose error is swallowed: the success path goes on
WriteFailSwallowed(k, partway) ==
    /\ art' = IF partway
              THEN [art EXCEPT ![base[i]][k] =
                       [st |-> "partial", src |-> i, run |-> run]]
              ELSE art
    /\ failW' = failW \cup {i}
    /\ partialW' = IF partway THEN partialW \cup {i} ELSE partialW
    /\ faults < MaxFaults
    /\ faults' = faults + 1
    /\ pc' = "log_success"
    /\ UNCHANGED <<base, plist, logS, logE, run, i, processed, counters,
                   loaded, art0, mark, calls, outcome, probe, failT,
                   crashAt, prev>>
    /\ UNCHANGED ext

\* a writer raises, before it opened the file or after it wrote a part
WriteFail(k, partway) ==
    /\ art' = IF partway
              THEN [art EXCEPT ![base[i]][k] =
                       [st |-> "partial", src |-> i, run |-> run]]
              ELSE art
    /\ failW' = failW \cup {i}
    /\ partialW' = IF partway THEN partialW \cup {i} ELSE partialW
    /\ faults < MaxFaults
    /\ faults' = faults + 1
    /\ HandleException
    /\ UNCHANGED <<base, plist, logS, run, processed, total,
                   skipped_processed, skipped_existing, succeeded, loaded,
                   art0, mark, calls, probe, failT, crashAt, prev>>
    /\ UNCHANGED ext

\* line 238
SaveTxtOk == pc = "save_txt" /\ WriteOk(TXT, "save_docx")
SaveTxtFail == pc = "save_txt" /\ \E partway \in BOOLEAN : WriteFail(TXT, partway)
\* line 239
SaveDocxOk == pc = "save_docx" /\ WriteOk(DOCX, "save_pdf")
SaveDocxFail == pc = "save_docx" /\ \E partway \in BOOLEAN : WriteFail(DOCX, partway)
\* line 240
SavePdfOk == pc = "save_pdf" /\ WriteOk(PDF, "log_success")
SavePdfFail == pc = "save_pdf" /\ \E partway \in BOOLEAN : WriteFail(PDF, partway)

\* line 247
LogSuccess ==
    /\ pc = "log_success"
    /\ logS' = safe_log_append(logS, SuccessLine(i))
    /\ pc' = "record"
    /\ UNCHANGED <<base, plist, logE, art, run, i, processed, counters, hist>>
    /\ UNCHANGED ext

\* lines 248-250
Record ==
    /\ pc = "record"
    /\ plist' = safe_log_append(plist, i)
    /\ processed' = processed \cup {i}
    /\ succeeded' = succeeded + 1
    /\ outcome' = [outcome EXCEPT ![i] = "succeeded"]
    /\ i' = i + 1
    /\ pc' = "classify"
    /\ UNCHANGED <<base, logS, logE, art, run, total, skipped_processed,
                   skipped_existing, failed, loaded, art0, mark, calls,
                   probe, failT, failW, partialW, crashAt, prev, faults>>
    /\ UNCHANGED ext

\* lines 257-263: the walk is over, the summary is printed
EndRun ==
    /\ pc = "classify" /\ i \notin Files
    /\ pc' = "done"
    /\ UNCHANGED <<disk, run, i, processed, counters, hist>>
    /\ UNCHANGED ext

\* the process is interrupted between two statements
Crash ==
    /\ pc \in Running
    /\ crashAt' = IF pc = "record" THEN i ELSE 0
    /\ pc' = "crashed"
    /\ UNCHANGED <<disk, run, i, processed, counters, loaded, art0, mark,
                   calls, outcome, probe, failT, failW, partialW, prev, faults>>
    /\ UNCHANGED ext

\* the process is interrupted while a writer is writing its file
CrashInWrite ==
    /\ pc \in {"save_txt", "save_docx", "save_pdf"}
    /\ LET k == CASE pc = "save_txt" -> TXT
                  [] pc = "save_docx" -> DOCX
                  [] pc = "save_pdf" -> PDF
       IN art' = [art EXCEPT ![base[i]][k] =
                     [st |-> "partial", src |-> i, run |-> run]]
    /\ crashAt' = 0
    /\ pc' = "crashed"
    /\ UNCHANGED <<base, plist, logS, logE, run, i, processed, counters,
                   loaded, art0, mark, calls, outcome, probe, failT, failW,
                   partialW, prev, faults>>
    /\ UNCHANGED ext

Next ==
    \/ StartRun
    \/ SkipProcessed
    \/ SkipExisting
    \/ Eligible
    \/ TranscribeOk
    \/ TranscribeFail
    \/ SaveTxtOk
    \/ SaveTxtFail
    \/ SaveDocxOk
    \/ SaveDocxFail
    \/ SavePdfOk
    \/ SavePdfFail
    \/ LogSuccess
    \/ Record
    \/ EndRun
    \/ Crash
    \/ CrashInWrite

Spec == Init /\ [][Next]_vars

TypeOK ==
    /\ pc \in Running \cup {"idle", "done", "crashed", "aborted", "died"}
    /\ run \in 0..MaxRuns
    /\ i \in 1..(NumFiles + 1)
    /\ processed \subseteq Files
    /\ faults \in 0..MaxFaults

\* ---------------------------------------------------------------- properties
Handled(f) == outcome[f] # "none"
Count(seq, x) == Cardinality({j \in DOMAIN seq : seq[j] = x})
NewP == SubSeq(plist, mark.p + 1, Len(plist))
NewS == SubSeq(logS, mark.s + 1, Len(logS))
NewE == SubSeq(logE, mark.e + 1, Len(logE))
\* the three outputs of f are whole files written from f in this run
WrittenAnew(f) ==
    \A k \in Kinds :
        art[base[f]][k] = [st |-> "complete", src |-> f, run |-> run]
\* the loop found f absent from the store with some output missing
FoundIncomplete(f) == probe[f] # Unseen /\ probe[f] # Kinds
Stored == load_processed_set(plist)
\* no two media files share directory and base name
DistinctBases == \A f, g \in Files : f # g => base[f] # base[g]

\* C1: after an interrupted run followed by a complete run without any
\* Transcriber or writer failure, every file is in the processed store and
\* each of its three outputs is a completely written file.  Stated for an
\* interrupted run without failures and for the directories in which no
\* two files share a base name, where it already fails.
C1_CrashSafeRestart ==
    (pc = "done" /\ prev.status = "crashed" /\ prev.clean
     /\ failT = {} /\ failW = {} /\ DistinctBases)
    => \A f \in Files :
          /\ f \in Stored
          /\ \A k \in Kinds : art[base[f]][k].st = "complete"

\* C2: in the run that follows a complete run without failures, the
\* Transcriber is never called, no output is written, succeeded and failed
\* stay 0, and at the end every file was counted as skipped.
C2_Idempotence ==
    (run >= 1 /\ prev.status = "done" /\ prev.clean)
    => /\ \A f \in Files : calls[f] = 0
       /\ art = art0
       /\ succeeded = 0 /\ failed = 0
       /\ pc = "done" =>
             /\ total = NumFiles
             /\ skipped_processed + skipped_existing = total
             /\ \A f \in Files :
                   outcome[f] \in {"skipped_processed", "skipped_existing"}

C2_Witness ==
    /\ pc = "done" /\ prev.status = "done" /\ prev.clean
    /\ total = NumFiles
    /\ \E f \in Files : art[base[f]][PDF].st = "complete"

\* C3: a complete run that starts with N of the M files in the store and no
\* complete output triple for the others calls the Transcriber exactly once
\* on each of the others and never on the recorded ones.
C3_Resumability ==
    (pc = "done"
     /\ \A f \in Files \ loaded : ~AllOutputsExist(art0, base[f]))
    => \A f \in Files : calls[f] = IF f \in loaded THEN 0 ELSE 1

\* C4: a file absent from the store at the start of the run whose three
\* outputs exist gets no Transcriber call, no output write and no log line;
\* once the loop has passed it, it is counted skipped-existing and its path
\* is in the processed list and in the in-memory set.
C4_ExistingArtifactPromotion ==
    \A f \in Files :
        (run >= 1 /\ f \notin loaded /\ AllOutputsExist(art0, base[f]))
        => /\ calls[f] = 0
           /\ art[base[f]] = art0[base[f]]
           /\ Count(NewS, SuccessLine(f)) = 0
           /\ Count(NewE, ErrorLine(f)) = 0
           /\ Handled(f) =>
                 /\ outcome[f] = "skipped_existing"
                 /\ f \in processed
                 /\ f \in Stored
           /\ skipped_existing =
                 Cardinality({g \in Files : outcome[g] = "skipped_existing"})
           /\ pc = "done" => Handled(f)

C4_Witness ==
    /\ pc = "done"
    /\ \E f \in Files :
          /\ f \notin loaded
          /\ AllOutputsExist(art0, base[f])
          /\ outcome[f] = "skipped_existing"
          /\ f \in Stored

\* C5: a file the loop finds absent from the store with zero, one or two
\* of its outputs present is not promoted: the Transcriber is called on it
\* once, and when it succeeds all three outputs are files written in this
\* run.
C5_PartialArtifactNonPromotion ==
    \A f \in Files :
        FoundIncomplete(f)
        => /\ outcome[f] \in {"none", "succeeded", "failed"}
           /\ outcome[f] # "succeeded" => (f \notin processed /\ f \notin Stored)
           /\ Handled(f) => calls[f] = 1
           /\ outcome[f] = "succeeded" => WrittenAnew(f)

C5_Witness ==
    \E f \in Files :
        /\ Cardinality(probe[f]) = 2
        /\ probe[f] \subseteq Kinds
        /\ outcome[f] = "succeeded"
        /\ \A k \in Kinds : art[base[f]][k] # art0[base[f]][k]

\* C6: in a complete run where the Transcriber fails for exactly one file k
\* and no writer fails, every file is handled, every other eligible file is
\* transcribed once, has its three outputs, one SUCCESS line and one store
\* record; k has one ERROR line, no store record, and failed = 1.
C6_FailureIsolation ==
    \A k \in Files :
        (pc = "done" /\ failT = {k} /\ failW = {})
        => /\ failed = 1
           /\ outcome[k] = "failed"
           /\ Count(NewE, ErrorLine(k)) = 1
           /\ Len(NewE) = 1
           /\ k \notin Stored
           /\ \A f \in Files : Handled(f)
           /\ \A f \in Files \ {k} :
                 FoundIncomplete(f)
                 => /\ calls[f] = 1
                    /\ outcome[f] = "succeeded"
                    /\ WrittenAnew(f)
                    /\ Count(NewS, SuccessLine(f)) = 1
                    /\ Count(NewP, f) = 1

C6_Witness ==
    /\ pc = "done" /\ failT = {2} /\ failW = {}
    /\ outcome[1] = "succeeded"
    /\ outcome[NumFiles] = "succeeded"

\* C7: a file with a failed output write is not recorded in that run, gets
\* no SUCCESS line and exactly one ERROR line, and the loop goes on to the
\* next file.
C7_WriterFailure ==
    \A f \in failW :
        /\ f \notin processed
        /\ Count(NewP, f) = 0
        /\ Count(NewS, SuccessLine(f)) = 0
        /\ Count(NewE, ErrorLine(f)) = 1
        /\ outcome[f] = "failed"
        /\ i > f
        /\ pc = "done" => \A g \in Files : Handled(g)

C7_Witness ==
    /\ pc = "done"
    /\ 1 \in failW
    /\ \E g \in Files : g > 1 /\ outcome[g] = "succeeded"

\* C8: a file one of whose output writes failed partway in the previous
\* run is eligible in this run: the Transcriber is called on it and its
\* three outputs are written again.  Stated for the directories in which
\* no two files share a base name, where it already fails.
C8_RetryAfterFailedWrite ==
    \A f \in prev.partial :
        (Handled(f) /\ DistinctBases)
        => /\ outcome[f] \in {"succeeded", "failed"}
           /\ calls[f] = 1
           /\ outcome[f] = "succeeded" => WrittenAnew(f)

\* C9 as stated: after a crash between the SUCCESS append and the store
\* append for f, the next run calls the Transcriber on f again, rewrites
\* its outputs and appends a second SUCCESS line.
C9_RedoAfterCrashBetweenAppends ==
    \A f \in Files :
        (prev.status = "crashed" /\ prev.crashfile = f /\ Handled(f))
        => /\ f \notin loaded
           /\ calls[f] = 1
           /\ outcome[f] = "succeeded" =>
                 (WrittenAnew(f) /\ Count(logS, SuccessLine(f)) >= 2)

\* C9 amended: after a crash between the SUCCESS append and the store
\* append for f, the next run finds f absent from the store but its three
\* outputs present: it promotes f without calling the Transcriber, leaves
\* the outputs as they are and appends no further SUCCESS line.
C9_PromotedAfterCrashBetweenAppends ==
    \A f \in Files :
        (prev.status = "crashed" /\ prev.crashfile = f)
        => /\ f \notin loaded
           /\ calls[f] = 0
           /\ art[base[f]] = art0[base[f]]
           /\ Count(NewS, SuccessLine(f)) = 0
           /\ Handled(f) =>
                 /\ outcome[f] = "skipped_existing"
                 /\ f \in processed
                 /\ Count(NewP, f) = 1

C9_Witness ==
    /\ prev.status = "crashed"
    /\ prev.crashfile \in Files
    /\ outcome[prev.crashfile] = "skipped_existing"
    /\ Count(logS, SuccessLine(prev.crashfile)) = 1

\* C10: a step that appends a path to the processed list, other than the
\* promotion of a skipped file, appends the path of the current file after
\* its three outputs were written in this run and after its SUCCESS line,
\* the last line of the success log.
C10_CompletionOrdering ==
    [][(Len(plist') > Len(plist) /\ pc # "classify")
       => /\ plist' = Append(plist, i)
          /\ WrittenAnew(i)
          /\ Len(logS) > mark.s
          /\ logS[Len(logS)] = SuccessLine(i)]_vars

C10_Witness ==
    \E f \in Files :
        /\ outcome[f] = "succeeded"
        /\ WrittenAnew(f)
        /\ f \in Stored

\* ------------------------------------------------ outputs removed by hand
\* between two runs somebody removes one output file from the directory
DeleteOutput ==
    /\ pc = "done"
    /\ faults < MaxFaults
    /\ faults' = faults + 1
    /\ \E b \in Bases, k \in Kinds :
          /\ Exists(art[b][k])
          /\ art' = [art EXCEPT ![b][k] = Absent]
    /\ UNCHANGED <<base, plist, logS, logE, pc, run, i, processed, counters,
                   loaded, art0, mark, calls, outcome, probe, failT, failW,
                   partialW, crashAt, prev>>
    /\ UNCHANGED ext

\* the runs of transcribe_folder that end by themselves, on a directory
\* from which output files may disappear between two runs
NextDel ==
    \/ StartRun
    \/ SkipProcessed
    \/ SkipExisting
    \/ Eligible
    \/ TranscribeOk
    \/ TranscribeFail
    \/ SaveTxtOk
    \/ SaveTxtFail
    \/ SaveDocxOk
    \/ SaveDocxFail
    \/ SavePdfOk
    \/ SavePdfFail
    \/ LogSuccess
    \/ Record
    \/ EndRun
    \/ DeleteOutput

SpecDel == Init /\ [][NextDel]_vars

\* C11: a file whose path is in the processed set loaded at the start of
\* the run gets no Transcriber call, no output written from it and no line
\* in the processed list, the success log or the error log in that run,
\* whether its outputs exist or not; the artifact probe is never made for
\* it, and once the loop has passed it, it is counted skipped-processed.
C11_SkipProcessedNoSideEffect ==
    \A f \in Files :
        (run >= 1 /\ f \in loaded)
        => /\ calls[f] = 0
           /\ \A b \in Bases, k \in Kinds :
                 ~(art[b][k].src = f /\ art[b][k].run = run)
           /\ Count(NewP, f) = 0
           /\ Count(NewS, SuccessLine(f)) = 0
           /\ Count(NewE, ErrorLine(f)) = 0
           /\ probe[f] = Unseen
           /\ outcome[f] \in {"none", "skipped_processed"}
           /\ i > f => outcome[f] = "skipped_processed"
           /\ skipped_processed =
                 Cardinality({g \in Files : outcome[g] = "skipped_processed"})
           /\ skipped_existing =
                 Cardinality({g \in Files : outcome[g] = "skipped_existing"})

C11_Witness ==
    /\ pc = "done"
    /\ \E f, g \in loaded :
          /\ ~AllOutputsExist(art0, base[f])
          /\ AllOutputsExist(art0, base[g])
          /\ outcome[f] = "skipped_processed"
          /\ outcome[g] = "skipped_processed"

\* s is the beginning of t
IsPrefix(s, t) == Len(s) <= Len(t) /\ SubSeq(t, 1, Len(s)) = s

C13_RecordLifecycle ==
    [][/\ IsPrefix(plist, plist')
       /\ \A f \in Files :
             /\ Count(plist', f) <= 1
             /\ Count(plist', f) > Count(plist, f)
                => /\ f \notin loaded
                   /\ outcome[f] = "none"
                   /\ outcome'[f] \in {"succeeded", "skipped_existing"}
             /\ outcome'[f] \in {"succeeded", "skipped_existing"}
                => /\ Count(plist', f) = 1
                   /\ \E j \in (mark'.p + 1)..Len(plist') : plist'[j] = f]_vars

C13_Witness ==
    /\ run = 2 /\ pc = "done"
    /\ \E f, g \in Files :
          /\ f \in loaded /\ outcome[f] = "skipped_processed"
          /\ g \notin loaded /\ outcome[g] = "succeeded"
          /\ Count(plist, f) = 1 /\ Count(plist, g) = 1

\* ------------------------------------------- the processed list as bytes
\* The part of transcribe_folder that reads and writes processed_files.txt,
\* with the file as a sequence of bytes: a path is a few bytes, a line ends
\* with "\n", a character outside ASCII takes a lead and a continuation
\* byte, and an interrupted append leaves the first bytes of its line.
PathOf(f) ==
    CASE f = 1 -> <<"a">>
      [] f = 2 -> <<"a", "b">>
      [] OTHER -> <<"lead", "cont">> \o [j \in 1..(f - 3) |-> "b"]

Whitespace == {" ", "\n"}

\* f.read() of a file opened with encoding="utf-8": every lead byte is
\* followed by its continuation byte, or the read raises
Decodable(bs) ==
    \A j \in DOMAIN bs :
        /\ bs[j] = "lead" => (j < Len(bs) /\ bs[j + 1] = "cont")
        /\ bs[j] = "cont" => (j > 1 /\ bs[j - 1] = "lead")

\* str.splitlines
RECURSIVE splitlines(_)
splitlines(bs) ==
    IF bs = <<>> THEN <<>>
    ELSE LET S == {j \in 1..Len(bs) : bs[j] = "\n"}
         IN IF S = {} THEN <<bs>>
            ELSE LET k == CHOOSE j \in S : \A m \in S : j <= m
                 IN <<SubSeq(bs, 1, k - 1)>>
                    \o splitlines(SubSeq(bs, k + 1, Len(bs)))

\* str.strip
RECURSIVE strip(_)
strip(ln) ==
    IF ln = <<>> THEN ln
    ELSE IF Head(ln) \in Whitespace THEN strip(Tail(ln))
    ELSE IF ln[Len(ln)] \in Whitespace THEN strip(SubSeq(ln, 1, Len(ln) - 1))
    ELSE ln

\* load_processed_set on the bytes of the file: the stripped non-empty lines
load_processed_text(bs) ==
    LET lns == splitlines(bs)
    IN {strip(lns[j]) : j \in {m \in 1..Len(lns) : strip(lns[m]) # <<>>}}

\* the files for which `full_path in processed` holds after loading bs
Recognised(bs) == {f \in Files : PathOf(f) \in load_processed_text(bs)}

\* the line written without its end
write_lineNoNewline(bs, message) == bs \o message

\* safe_log_append on the bytes of the file: f.write(message + "\n")
write_line(bs, message) == bs \o message \o <<"\n">>

InitText == Init /\ base = [f \in Files |-> f]

\* lines 176-177: the list is read and decoded
TextStartRun ==
    /\ pc \in {"idle", "done", "crashed", "aborted", "died"}
    /\ run < MaxRuns
    /\ Decodable(text)
    /\ run' = run + 1
    /\ processed' = Recognised(text)
    /\ loaded' = Recognised(text)
    /\ i' = 1
    /\ pc' = "classify"
    /\ UNCHANGED <<disk, counters, art0, mark, calls, outcome, probe, failT,
                   failW, partialW, crashAt, prev, faults, ext>>

\* lines 69-70: f.read() raises UnicodeDecodeError, the run ends
TextLoadFails ==
    /\ pc \in {"idle", "done", "crashed"}
    /\ run < MaxRuns
    /\ ~Decodable(text)
    /\ run' = run + 1
    /\ pc' = "aborted"
    /\ UNCHANGED <<disk, i, processed, counters, hist, ext>>

\* lines 208-211
TextSkipProcessed ==
    /\ pc = "classify" /\ i \in Files
    /\ i \in processed
    /\ i' = i + 1
    /\ UNCHANGED <<disk, pc, run, processed, counters, hist, ext>>

\* lines 222-223 and 248-249: the path of a promoted or succeeded file is
\* appended and added to the set
TextRecord ==
    /\ pc = "classify" /\ i \in Files
    /\ i \notin processed
    /\ text' = write_line(text, PathOf(i))
    /\ processed' = processed \cup {i}
    /\ written' = written \cup {i}
    /\ i' = i + 1
    /\ UNCHANGED <<disk, pc, run, counters, hist, torn, gui, twin,
                   font>>

\* lines 251-255: the file failed, nothing is recorded
TextFailed ==
    /\ pc = "classify" /\ i \in Files
    /\ i \notin processed
    /\ i' = i + 1
    /\ UNCHANGED <<disk, pc, run, processed, counters, hist, ext>>

\* line 63 interrupted: the first n bytes of the path reached the file
TextRecordTorn ==
    /\ pc = "classify" /\ i \in Files
    /\ i \notin processed
    /\ \E n \in 1..(Len(PathOf(i)) - 1) :
          text' = text \o SubSeq(PathOf(i), 1, n)
    /\ torn' = TRUE
    /\ pc' = "crashed"
    /\ UNCHANGED <<disk, run, i, processed, counters, hist, written, gui,
                   twin, font>>

\* lines 257-263
TextEndRun ==
    /\ pc = "classify" /\ i \notin Files
    /\ pc' = "done"
    /\ UNCHANGED <<disk, run, i, processed, counters, hist, ext>>

NextText ==
    \/ TextStartRun
    \/ TextLoadFails
    \/ TextSkipProcessed
    \/ TextRecord
    \/ TextFailed
    \/ TextRecordTorn
    \/ TextEndRun

SpecText == InitText /\ [][NextText]_vars

\* C14: once an append to the processed list has been cut short, leaving a
\* proper prefix of a path without newline, loading the list does not
\* fail, no file is taken as processed whose whole line was never
\* appended, and every file whose line was appended, those appended after
\* the torn line included, is recognised by the next load.
C14_TornWriteRecovery ==
    torn => /\ pc # "aborted"
            /\ Decodable(text)
            /\ loaded \subseteq written
            /\ written \subseteq Recognised(text)

\* ------------------------------------------------- configuration errors
\* a process that stops before the loop: nothing of the run has happened
AbortedRun ==
    /\ pc \in {"idle", "done", "crashed", "aborted", "died"}
    /\ run < MaxRuns
    /\ run' = run + 1
    /\ processed' = {}
    /\ total' = 0 /\ skipped_processed' = 0 /\ skipped_existing' = 0
    /\ succeeded' = 0 /\ failed' = 0
    /\ i' = 1
    /\ pc' = "aborted"
    /\ loaded' = {}
    /\ art0' = art
    /\ mark' = [p |-> Len(plist), s |-> Len(logS), e |-> Len(logE)]
    /\ calls' = [f \in Files |-> 0]
    /\ outcome' = [f \in Files |-> "none"]
    /\ probe' = [f \in Files |-> Unseen]
    /\ failT' = {} /\ failW' = {} /\ partialW' = {}
    /\ crashAt' = 0
    /\ prev' = IF pc = "idle" THEN NoPrev
               ELSE [status |-> pc,
                     clean |-> (failT = {} /\ failW = {}),
                     partial |-> partialW,
                     crashfile |-> crashAt]
    /\ UNCHANGED <<disk, faults, ext>>

\* ffmpeg looked for only when the folder has been gone through
FfmpegMissingAfterLoop ==
    /\ pc = "done"
    /\ pc' = "aborted"
    /\ UNCHANGED <<disk, run, i, processed, counters, hist, ext>>

\* main, line 292: ensure_ffmpeg raises RuntimeError before
\* transcribe_folder is called
FfmpegMissing == AbortedRun

\* line 177: load_processed_set raises on a list that cannot be read, after
\* lines 167-174 made the paths absolute and the log directories
StoreUnreadable == AbortedRun

NextCfg ==
    \/ Next
    \/ FfmpegMissing
    \/ StoreUnreadable

SpecCfg == Init /\ [][NextCfg]_vars

LogSuccessFail ==
    /\ pc = "log_success"
    /\ faults < MaxFaults
    /\ faults' = faults + 1
    /\ HandleException
    /\ UNCHANGED <<base, plist, logS, art, run, processed, total,
                   skipped_processed, skipped_existing, succeeded, loaded,
                   art0, mark, calls, probe, failT, failW, partialW,
                   crashAt, prev, ext>>

\* line 248 raises inside the try, after the SUCCESS line was appended
RecordFail ==
    /\ pc = "record"
    /\ faults < MaxFaults
    /\ faults' = faults + 1
    /\ HandleException
    /\ UNCHANGED <<base, plist, logS, art, run, processed, total,
                   skipped_processed, skipped_existing, succeeded, loaded,
                   art0, mark, calls, probe, failT, failW, partialW,
                   crashAt, prev, ext>>

\* lines 219-222: the promotion append raises; it is in no try block, so
\* the exception leaves transcribe_folder and the process ends
PromoteFail ==
    /\ pc = "classify" /\ i \in Files
    /\ i \notin processed
    /\ AllOutputsExist(art, base[i])
    /\ faults < MaxFaults
    /\ faults' = faults + 1
    /\ total' = total + 1
    /\ probe' = [probe EXCEPT ![i] = ExistingKinds(art, base[i])]
    /\ pc' = "died"
    /\ UNCHANGED <<disk, run, i, processed, skipped_processed,
                   skipped_existing, succeeded, failed, loaded, art0, mark,
                   calls, outcome, failT, failW, partialW, crashAt, prev,
                   ext>>

\* lines 251-253: the Transcriber raises and the append to the error log
\* in the except branch raises too; nothing catches the second exception
ErrorLogFail ==
    /\ pc = "transcribe"
    /\ faults < MaxFaults
    /\ faults' = faults + 1
    /\ calls' = [calls EXCEPT ![i] = @ + 1]
    /\ failT' = failT \cup {i}
    /\ pc' = "died"
    /\ UNCHANGED <<disk, run, i, processed, counters, loaded, art0, mark,
                   outcome, probe, failW, partialW, crashAt, prev, ext>>

NextIO ==
    \/ Next
    \/ LogSuccessFail
    \/ RecordFail
    \/ PromoteFail
    \/ ErrorLogFail

SpecIO == Init /\ [][NextIO]_vars

\* C16: once the loop has started no failure of a call made for one file
\* ends the run: the run is never ended by an exception, a failed file has
\* its ERROR line and is not in the processed list, and a run that is over
\* has handled every file.
C16_PropagationPolicy ==
    /\ pc # "died"
    /\ \A f \in Files :
          outcome[f] = "failed"
          => (Count(NewE, ErrorLine(f)) = 1 /\ f \notin Stored)
    /\ pc = "done" => \A f \in Files : Handled(f)

\* ------------------------------------------------- audio_to_text_gui
\* The window of audio_to_text_gui: every press of the Start button starts
\* a thread running transcribe_folder; the threads share the whisper model,
\* the directory, the two logs and the processed list.
InitGui == Init /\ base = [f \in Files |-> f]

\* the variables of the command-line process, which the window leaves alone
cli == <<pc, run, i, processed, counters, loaded, art0, mark, outcome,
         probe, failT, failW, partialW, crashAt, prev, text, written, torn,
         twin, font>>

\* the local variables of thread t become st
GuiSet(t, st) == gui' = [gui EXCEPT ![t] = st]

\* lines 106-111, start_processing: the button starts one more thread
StartProcessing ==
    \E t \in Threads :
        /\ gui[t].pc = "none"
        /\ \A u \in 1..(t - 1) : gui[u].pc # "none"
        /\ GuiSet(t, [gui[t] EXCEPT !.pc = "load"])
        /\ UNCHANGED <<disk, calls, faults, cli>>

\* lines 69-70: processed = load_processed(); count = 0
GuiLoad(t) ==
    /\ gui[t].pc = "load"
    /\ GuiSet(t, [pc |-> "classify", i |-> 1,
                  processed |-> load_processed_set(plist), count |-> 0])
    /\ UNCHANGED <<disk, calls, faults, cli>>

\* lines 71-78: the file is in the set loaded by this thread
GuiSkip(t) ==
    /\ gui[t].pc = "classify" /\ gui[t].i \in Files
    /\ gui[t].i \in gui[t].processed
    /\ GuiSet(t, [gui[t] EXCEPT !.i = @ + 1])
    /\ UNCHANGED <<disk, calls, faults, cli>>

\* lines 79-81: model.transcribe is entered
GuiTranscribeCall(t) ==
    /\ gui[t].pc = "classify" /\ gui[t].i \in Files
    /\ gui[t].i \notin gui[t].processed
    /\ calls' = [calls EXCEPT ![gui[t].i] = @ + 1]
    /\ GuiSet(t, [gui[t] EXCEPT !.pc = "transcribing"])
    /\ UNCHANGED <<disk, faults, cli>>

\* line 81 returns
GuiTranscribeOk(t) ==
    /\ gui[t].pc = "transcribing"
    /\ GuiSet(t, [gui[t] EXCEPT !.pc = "save_txt"])
    /\ UNCHANGED <<disk, calls, faults, cli>>

\* lines 95-96: the except branch, then the next file
GuiHandleException(t) ==
    /\ logE' = safe_log_append(logE, ErrorLine(gui[t].i))
    /\ GuiSet(t, [gui[t] EXCEPT !.pc = "classify", !.i = @ + 1])

\* line 81 raises
GuiTranscribeFail(t) ==
    /\ gui[t].pc = "transcribing"
    /\ faults < MaxFaults
    /\ faults' = faults + 1
    /\ GuiHandleException(t)
    /\ UNCHANGED <<base, plist, logS, art, calls, cli>>

\* lines 88-90: one of the three writers returns
GuiSave(t) ==
    /\ gui[t].pc \in {"save_txt", "save_docx", "save_pdf"}
    /\ LET k == CASE gui[t].pc = "save_txt" -> TXT
                  [] gui[t].pc = "save_docx" -> DOCX
                  [] gui[t].pc = "save_pdf" -> PDF
           nextpc == CASE gui[t].pc = "save_txt" -> "save_docx"
                       [] gui[t].pc = "save_docx" -> "save_pdf"
                       [] gui[t].pc = "save_pdf" -> "log_success"
       IN /\ art' = [art EXCEPT ![base[gui[t].i]][k] =
                        [st |-> "complete", src |-> gui[t].i, run |-> t]]
          /\ GuiSet(t, [gui[t] EXCEPT !.pc = nextpc])
    /\ UNCHANGED <<base, plist, logS, logE, calls, faults, cli>>

\* lines 88-90: one of the three writers raises, before it opened the file
\* or after it wrote a part
GuiSaveFail(t) ==
    /\ gui[t].pc \in {"save_txt", "save_docx", "save_pdf"}
    /\ faults < MaxFaults
    /\ faults' = faults + 1
    /\ LET k == CASE gui[t].pc = "save_txt" -> TXT
                  [] gui[t].pc = "save_docx" -> DOCX
                  [] gui[t].pc = "save_pdf" -> PDF
       IN \E partway \in BOOLEAN :
             art' = IF partway
                    THEN [art EXCEPT ![base[gui[t].i]][k] =
                             [st |-> "partial", src |-> gui[t].i, run |-> t]]
                    ELSE art
    /\ GuiHandleException(t)
    /\ UNCHANGED <<base, plist, logS, calls, cli>>

\* line 92
GuiLogSuccess(t) ==
    /\ gui[t].pc = "log_success"
    /\ logS' = safe_log_append(logS, SuccessLine(gui[t].i))
    /\ GuiSet(t, [gui[t] EXCEPT !.pc = "record"])
    /\ UNCHANGED <<base, plist, logE, art, calls, faults, cli>>

\* lines 93-94: the path is appended; the set of the thread is not updated
GuiRecord(t) ==
    /\ gui[t].pc = "record"
    /\ plist' = safe_log_append(plist, gui[t].i)
    /\ GuiSet(t, [gui[t] EXCEPT !.pc = "classify", !.i = @ + 1,
                                !.count = @ + 1])
    /\ UNCHANGED <<base, logS, logE, art, calls, faults, cli>>

\* line 97: the walk is over, the thread ends
GuiDone(t) ==
    /\ gui[t].pc = "classify" /\ gui[t].i \notin Files
    /\ GuiSet(t, [gui[t] EXCEPT !.pc = "finished"])
    /\ UNCHANGED <<disk, calls, faults, cli>>

NextGui ==
    \/ StartProcessing
    \/ \E t \in Threads : GuiLoad(t)
    \/ \E t \in Threads : GuiSkip(t)
    \/ \E t \in Threads : GuiTranscribeCall(t)
    \/ \E t \in Threads : GuiTranscribeOk(t)
    \/ \E t \in Threads : GuiTranscribeFail(t)
    \/ \E t \in Threads : GuiSave(t)
    \/ \E t \in Threads : GuiSaveFail(t)
    \/ \E t \in Threads : GuiLogSuccess(t)
    \/ \E t \in Threads : GuiRecord(t)
    \/ \E t \in Threads : GuiDone(t)

SpecGui == InitGui /\ [][NextGui]_vars

\* the threads that were started and have not ended
GuiRunning == {t \in Threads : gui[t].pc \notin {"none", "finished"}}
\* the threads inside model.transcribe
GuiTranscribing == {t \in Threads : gui[t].pc = "transcribing"}

\* C17: whatever the presses of the Start button, at every moment at most
\* one thread is inside model.transcribe and at most one thread is running
\* transcribe_folder.
C17_AtMostOneInFlight ==
    /\ Cardinality(GuiTranscribing) <= 1
    /\ Cardinality(GuiRunning) <= 1

\* ------------------------------------------------------- write ordering
\* nothing was done yet in this run for the files after the current one,
\* and the lines added in this run are in traversal order
HandledInOrder ==
    /\ \A f \in Files :
          f > i => /\ calls[f] = 0
                   /\ \A b \in Bases, k \in Kinds :
                         ~(art[b][k].src = f /\ art[b][k].run = run)
    /\ \A j \in (mark.p + 1)..Len(plist) :
          /\ plist[j] <= i
          /\ j > mark.p + 1 => plist[j - 1] < plist[j]
    /\ \A j \in (mark.s + 1)..Len(logS) :
          /\ logS[j].path <= i
          /\ j > mark.s + 1 => logS[j - 1].path < logS[j].path
    /\ \A j \in (mark.e + 1)..Len(logE) :
          /\ logE[j].path <= i
          /\ j > mark.e + 1 => logE[j - 1].path < logE[j].path

CudaStartRun == StartRun

\* lines 201-217: the path is in the set or the three outputs exist; the
\* file is passed over and nothing is written
CudaSkip ==
    /\ pc = "classify" /\ i \in Files
    /\ i \in processed \/ AllOutputsExist(art, base[i])
    /\ outcome' = [outcome EXCEPT ![i] =
                      IF i \in processed THEN "skipped_processed"
                      ELSE "skipped_existing"]
    /\ probe' = [probe EXCEPT ![i] = ExistingKinds(art, base[i])]
    /\ i' = i + 1
    /\ UNCHANGED <<disk, pc, run, processed, counters, loaded, art0, mark,
                   calls, failT, failW, partialW, crashAt, prev, faults,
                   ext>>

\* lines 201-238: neither skip condition holds
CudaEligible ==
    /\ pc = "classify" /\ i \in Files
    /\ ~(i \in processed \/ AllOutputsExist(art, base[i]))
    /\ probe' = [probe EXCEPT ![i] = ExistingKinds(art, base[i])]
    /\ pc' = "transcribe"
    /\ UNCHANGED <<disk, run, i, processed, counters, loaded, art0, mark,
                   calls, outcome, failT, failW, partialW, crashAt, prev,
                   faults, ext>>

\* lines 254-256: the except branch
CudaHandleException ==
    /\ logE' = safe_log_append(logE, ErrorLine(i))
    /\ outcome' = [outcome EXCEPT ![i] = "failed"]
    /\ i' = i + 1
    /\ pc' = "classify"

\* lines 220-223: the file has gone since it was collected
CudaFileNotFound ==
    /\ pc = "transcribe"
    /\ faults < MaxFaults
    /\ faults' = faults + 1
    /\ CudaHandleException
    /\ UNCHANGED <<base, plist, logS, art, run, processed, counters, loaded,
                   art0, mark, calls, probe, failT, failW, partialW, crashAt,
                   prev, ext>>

\* line 238 raises
CudaTranscribeFail ==
    /\ pc = "transcribe"
    /\ calls' = [calls EXCEPT ![i] = @ + 1]
    /\ failT' = failT \cup {i}
    /\ faults < MaxFaults
    /\ faults' = faults + 1
    /\ CudaHandleException
    /\ UNCHANGED <<base, plist, logS, art, run, processed, counters, loaded,
                   art0, mark, probe, failW, partialW, crashAt, prev, ext>>

\* lines 242-244: a writer raises, before it opened the file or after it
\* wrote a part
CudaWriteFail ==
    /\ pc \in {"save_txt", "save_docx", "save_pdf"}
    /\ LET k == CASE pc = "save_txt" -> TXT
                  [] pc = "save_docx" -> DOCX
                  [] pc = "save_pdf" -> PDF
       IN \E partway \in BOOLEAN :
             /\ art' = IF partway
                       THEN [art EXCEPT ![base[i]][k] =
                                [st |-> "partial", src |-> i, run |-> run]]
                       ELSE art
             /\ partialW' = IF partway THEN partialW \cup {i} ELSE partialW
    /\ failW' = failW \cup {i}
    /\ faults < MaxFaults
    /\ faults' = faults + 1
    /\ CudaHandleException
    /\ UNCHANGED <<base, plist, logS, run, processed, counters, loaded,
                   art0, mark, calls, probe, failT, crashAt, prev, ext>>

\* line 252: the path is appended; the set in memory is not updated
CudaRecord ==
    /\ pc = "record"
    /\ plist' = safe_log_append(plist, i)
    /\ outcome' = [outcome EXCEPT ![i] = "succeeded"]
    /\ i' = i + 1
    /\ pc' = "classify"
    /\ UNCHANGED <<base, logS, logE, art, run, processed, counters, loaded,
                   art0, mark, calls, probe, failT, failW, partialW,
                   crashAt, prev, faults, ext>>

\* the loop is over, the script ends
CudaEndRun == EndRun

NextCuda ==
    \/ CudaStartRun
    \/ CudaSkip
    \/ CudaEligible
    \/ CudaFileNotFound
    \/ TranscribeOk
    \/ CudaTranscribeFail
    \/ SaveTxtOk
    \/ SaveDocxOk
    \/ SavePdfOk
    \/ CudaWriteFail
    \/ LogSuccess
    \/ CudaRecord
    \/ CudaEndRun
    \/ Crash
    \/ CrashInWrite

SpecCuda == Init /\ [][NextCuda]_vars

\* C19: in the loop of transcribe_audio_cuda a file that was not in the
\* processed list when the run started and is skipped because its three
\* outputs exist has its path in the processed list from then on, so that
\* the next run finds it there.
C19_CudaSkipPromotion ==
    \A f \in Files :
        (run >= 1 /\ f \notin loaded /\ outcome[f] = "skipped_existing")
        => f \in Stored

\* ------------------------------------------------ the per-file machine
\* a step of the loop of a running process
LoopStep ==
    \/ SkipProcessed
    \/ SkipExisting
    \/ Eligible
    \/ TranscribeOk
    \/ TranscribeFail
    \/ SaveTxtOk
    \/ SaveTxtFail
    \/ SaveDocxOk
    \/ SaveDocxFail
    \/ SavePdfOk
    \/ SavePdfFail
    \/ LogSuccess
    \/ Record
    \/ EndRun

\* the runs in which every Transcriber and writer call returns or raises:
\* a process that has started goes on until its loop is over
FairSpecDel == Init /\ [][NextDel]_vars /\ WF_vars(LoopStep)

Terminal == {"skipped_processed", "skipped_existing", "succeeded", "failed"}

\* C20: in a run in which every call returns or raises, the files before
\* the current one are each in one terminal state and the others in none;
\* the Transcriber was called at most once on a file, never on a skipped
\* one and once on a succeeded one; a file in a terminal state stays in it
\* and gets no further call in that run; and the run reaches its end, with
\* every file in a terminal state.
C20_PerFileStateMachine ==
    /\ [](run >= 1
          => \A f \in Files :
                /\ calls[f] <= 1
                /\ outcome[f] \in Terminal \cup {"none"}
                /\ Handled(f) <=> f < i
                /\ outcome[f] \in {"skipped_processed", "skipped_existing"}
                   => calls[f] = 0
                /\ outcome[f] = "succeeded" => calls[f] = 1
                /\ pc = "done" => outcome[f] \in Terminal)
    /\ [][\A f \in Files :
             (run' = run /\ Handled(f))
             => (outcome'[f] = outcome[f] /\ calls'[f] = calls[f])]_vars
    /\ (pc \in Running) ~> (pc = "done")

C20_Witness ==
    /\ pc = "done"
    /\ \E f, g, h \in Files :
          /\ outcome[f] = "succeeded" /\ calls[f] = 1
          /\ outcome[g] = "skipped_existing" /\ calls[g] = 0
          /\ outcome[h] = "failed" /\ calls[h] = 1

\* ----------------------------------------- the store as a set of paths
\* Any sequence of whole appends of paths to the processed list, loaded
\* again after each of them.
\* the lines of the text that are the path of f
LinesOf(bs, f) ==
    LET lns == splitlines(bs)
    IN {j \in 1..Len(lns) : lns[j] = PathOf(f)}

\* safe_log_append(processed_list, path) for any path, then
\* load_processed_set
StoreAppend ==
    /\ pc = "idle"
    /\ Len(splitlines(text)) < MaxLines
    /\ \E f \in Files :
          /\ text' = write_line(text, PathOf(f))
          /\ written' = written \cup {f}
          /\ processed' = Recognised(write_line(text, PathOf(f)))
    /\ loaded' = processed
    /\ UNCHANGED <<disk, pc, run, i, counters, art0, mark, calls, outcome,
                   probe, failT, failW, partialW, crashAt, prev, faults,
                   torn, gui, twin, font>>

NextStore == StoreAppend

SpecStore == InitText /\ [][NextStore]_vars

\* C21: for a processed list made of whole appended lines, appending a
\* path a second time gives a file that loads to the same set, and so to
\* the same skip decisions, as after the first append; appending a path
\* that is already recorded leaves the loaded set as it was; and the set
\* holds exactly the paths that were appended.
C21_RecordIdempotence ==
    /\ processed = Recognised(text)
    /\ processed = written
    /\ \A f \in Files :
          LET once == write_line(text, PathOf(f))
              twice == write_line(once, PathOf(f))
          IN /\ load_processed_text(twice) = load_processed_text(once)
             /\ Recognised(twice) = Recognised(once)
             /\ f \in Recognised(text)
                => /\ load_processed_text(once) = load_processed_text(text)
                   /\ Recognised(once) = Recognised(text)

C21_Witness ==
    \E f, g \in Files :
        /\ f # g
        /\ Cardinality(LinesOf(text, f)) >= 2
        /\ Cardinality(LinesOf(text, g)) = 1
        /\ processed = {f, g}
        /\ loaded = {f, g}

\* C22: whenever the loop is between two files, the files the in-memory
\* set holds are the files load_processed_set would find in the processed
\* list as it is on disk at that moment.
C22_SetMirrorsStore ==
    pc = "classify" => processed = Recognised(text)

\* ------------------------------------------------- two runs side by side
\* Two runs of transcribe_folder, a and b, start from the same directory,
\* the same output files and the same processed list; a starts with empty
\* logs, b with any logs.  They go through the files together, one
\* iteration of the loop at a time, and their calls meet the same outcomes.
\* Every run is compared with the run that starts from empty logs, hence
\* any two runs with one another.

\* the elements of a set of files as a sequence, in traversal order
InOrder(S) ==
    [j \in 1..Cardinality(S) |->
        CHOOSE x \in S : Cardinality({y \in S : y < x}) = j - 1]

Present == [st |-> "complete", src |-> 0, run |-> 0]

\* what the calls made for one file do: all return, the Transcriber
\* raises, or writer k raises, before or after it wrote a part
CallOutcomes ==
    {[kind |-> "ok", k |-> 0, partway |-> FALSE],
     [kind |-> "failT", k |-> 0, partway |-> FALSE]}
    \cup {[kind |-> "failW", k |-> k, partway |-> w] :
             k \in Kinds, w \in BOOLEAN}

\* a test that also takes a file with a SUCCESS line as processed
InProcessedOrLogged(st, f) ==
    \/ f \in st.processed
    \/ \E j \in DOMAIN st.logS : st.logS[j] = SuccessLine(f)

\* line 208: full_path in processed
InProcessed(st, f) == f \in st.processed

\* lines 203-255: one iteration of the loop on file f from state st, the
\* calls of the iteration having outcome c
handle_file(st, f, c) ==
    IF InProcessed(st, f)
    THEN [st EXCEPT !.outcome[f] = "skipped_processed"]
    ELSE IF AllOutputsExist(st.art, base[f])
    THEN [st EXCEPT !.plist = safe_log_append(@, f),
                    !.processed = @ \cup {f},
                    !.outcome[f] = "skipped_existing"]
    ELSE IF c.kind = "ok"
    THEN [st EXCEPT !.calls[f] = @ + 1,
                    !.art[base[f]] =
                        [k \in Kinds |->
                            [st |-> "complete", src |-> f, run |-> 1]],
                    !.logS = safe_log_append(@, SuccessLine(f)),
                    !.plist = safe_log_append(@, f),
                    !.processed = @ \cup {f},
                    !.outcome[f] = "succeeded"]
    ELSE IF c.kind = "failT"
    THEN [st EXCEPT !.calls[f] = @ + 1,
                    !.logE = safe_log_append(@, ErrorLine(f)),
                    !.outcome[f] = "failed"]
    ELSE [st EXCEPT !.calls[f] = @ + 1,
                    !.art[base[f]] =
                        [k \in Kinds |->
                            IF k < c.k
                            THEN [st |-> "complete", src |-> f, run |-> 1]
                            ELSE IF k = c.k /\ c.partway
                            THEN [st |-> "partial", src |-> f, run |-> 1]
                            ELSE st.art[base[f]][k]],
                    !.logE = safe_log_append(@, ErrorLine(f)),
                    !.outcome[f] = "failed"]

\* lines 166-197 in both runs: the same processed list and output files,
\* logs that differ
TwinStart ==
    /\ twin.i = 0
    /\ \E stored \in SUBSET Files, have \in SUBSET Bases,
          okB \in SUBSET Files, errB \in {{}, Files} :
          LET st == [plist |-> InOrder(stored),
                     processed |-> load_processed_set(InOrder(stored)),
                     art |-> [b \in Bases |->
                                 [k \in Kinds |->
                                     IF b \in have THEN Present ELSE Absent]],
                     logS |-> <<>>,
                     logE |-> <<>>,
                     calls |-> [f \in Files |-> 0],
                     outcome |-> [f \in Files |-> "none"]]
          IN twin' = [i |-> 1, faults |-> 0,
                      a |-> st,
                      b |-> [st EXCEPT
                                !.logS = [j \in DOMAIN InOrder(okB) |->
                                             SuccessLine(InOrder(okB)[j])],
                                !.logE = [j \in DOMAIN InOrder(errB) |->
                                             ErrorLine(InOrder(errB)[j])]]]
    /\ UNCHANGED <<disk, pc, run, i, processed, counters, hist, text,
                   written, torn, gui, font>>

\* lines 198-255: both runs handle the next file
TwinStep ==
    /\ twin.i \in Files
    /\ \E c \in CallOutcomes :
          /\ c.kind # "ok" => twin.faults < MaxFaults
          /\ twin' = [i |-> twin.i + 1,
                      faults |-> IF c.kind = "ok" THEN twin.faults
                                 ELSE twin.faults + 1,
                      a |-> handle_file(twin.a, twin.i, c),
                      b |-> handle_file(twin.b, twin.i, c)]
    /\ UNCHANGED <<disk, pc, run, i, processed, counters, hist, text,
                   written, torn, gui, font>>

NextTwin ==
    \/ TwinStart
    \/ TwinStep

SpecTwin == InitText /\ [][NextTwin]_vars

\* C23: two runs that start from the same directory, output files and
\* processed list but from different logs put every file in the same
\* terminal state, make the same Transcriber calls, write the same output
\* files and append the same paths to the processed list.
C23_LogsDoNotSteer ==
    twin.i >= 1
    => /\ twin.a.outcome = twin.b.outcome
       /\ twin.a.calls = twin.b.calls
       /\ twin.a.plist = twin.b.plist
       /\ twin.a.processed = twin.b.processed
       /\ twin.a.art = twin.b.art

C23_Witness ==
    /\ twin.i = NumFiles + 1
    /\ twin.a.logS # twin.b.logS
    /\ twin.a.logE # twin.b.logE
    /\ \E f \in Files :
          /\ twin.a.outcome[f] = "succeeded"
          /\ Count(twin.b.logS, SuccessLine(f)) = 2
          /\ Count(twin.a.logS, SuccessLine(f)) = 1
    /\ \E f \in Files : twin.a.outcome[f] = "failed"

\* ------------------------------------------------------------ the PDF font
\* The font of the PDF output over the runs of transcribe_folder, on a
\* machine where arial.ttf may be installed or removed at any time.
\* font.i is the file the loop is at, 0 outside a run.
others == <<disk, pc, run, i, processed, counters, hist, text, written,
            torn, gui, twin>>

\* register_pdf_font: "Arial" when a candidate file exists and registers,
\* "Helvetica" when none exists or registerFont raised
register_pdf_font(installed, registers) ==
    IF installed /\ registers THEN "Arial" ELSE "Helvetica"

\* arial.ttf appears or disappears
FontInstallOrRemove ==
    /\ font.run < MaxRuns \/ font.i \in Files
    /\ font' = [font EXCEPT !.installed = ~@]
    /\ UNCHANGED others

\* lines 183-188: font_name = register_pdf_font()
FontStartRun ==
    /\ font.i = 0
    /\ font.run < MaxRuns
    /\ \E registers \in BOOLEAN :
          font' = [font EXCEPT
                      !.i = 1,
                      !.run = @ + 1,
                      !.name = register_pdf_font(font.installed, registers),
                      !.probes = 1,
                      !.used = <<>>]
    /\ UNCHANGED others

\* the font looked for again for each file that is converted
FontSavePdfProbingAgain ==
    /\ font.i \in Files
    /\ \E registers \in BOOLEAN :
          LET n == register_pdf_font(font.installed, registers)
          IN font' = [font EXCEPT
                         !.i = @ + 1,
                         !.name = n,
                         !.probes = @ + 1,
                         !.used = Append(@, [file |-> font.i, font_name |-> n])]
    /\ UNCHANGED others

\* lines 234-240: the file is transcribed and
\* save_pdf(text, pdf_path, font_name=font_name) is called
FontSavePdf ==
    /\ font.i \in Files
    /\ font' = [font EXCEPT
                   !.i = @ + 1,
                   !.used = Append(@, [file |-> font.i,
                                       font_name |-> font.name])]
    /\ UNCHANGED others

\* lines 207-225 and 251-255: the file is skipped, or fails before
\* save_pdf: no PDF is written for it
FontNoPdf ==
    /\ font.i \in Files
    /\ font' = [font EXCEPT !.i = @ + 1]
    /\ UNCHANGED others

\* lines 257-263: the run is over
FontEndRun ==
    /\ font.i = NumFiles + 1
    /\ font' = [font EXCEPT !.i = 0]
    /\ UNCHANGED others

NextFont ==
    \/ FontInstallOrRemove
    \/ FontStartRun
    \/ FontSavePdf
    \/ FontNoPdf
    \/ FontEndRun

SpecFont == InitText /\ [][NextFont]_vars

\* C24: in a run register_pdf_font was called exactly once, before the
\* first file; no step of the loop calls it again or changes the font name;
\* and every save_pdf call of the run was given that name, whatever
\* happened to the font files in the meantime.
C24_FontNegotiatedOnce ==
    [][font'.i >= 1
       => /\ font'.probes = 1
          /\ font'.name \in {"Arial", "Helvetica"}
          /\ font.i >= 1 => font'.name = font.name
          /\ \A j \in DOMAIN font'.used :
                font'.used[j].font_name = font'.name]_vars

C24_Witness ==
    /\ font.i = NumFiles + 1
    /\ font.name = "Arial"
    /\ ~font.installed
    /\ Len(font.used) >= 2
    /\ font.run = 2

\* ------------------------------------------------------ summary counters
\* the number of files of this run whose outcome is o
Outcomes(o) == Cardinality({f \in Files : outcome[f] = o})

\* C25: at every file boundary and when the summary is printed, total is
\* the sum of the four outcome counters, it is the number of files the loop
\* has come to, and each counter is the number of files with that outcome:
\* every file discovered has incremented exactly one of the four. Inside a
\* file total is one ahead, and a step changes one outcome counter at most,
\* by one.
C25_CountersPartition ==
    /\ pc \in {"classify", "done"}
       => /\ total = skipped_processed + skipped_existing + succeeded + failed
          /\ total = i - 1
          /\ skipped_processed = Outcomes("skipped_processed")
          /\ skipped_existing = Outcomes("skipped_existing")
          /\ succeeded = Outcomes("succeeded")
          /\ failed = Outcomes("failed")
    /\ pc \in Running \ {"classify"}
       => /\ total = skipped_processed + skipped_existing + succeeded
                     + failed + 1
          /\ total = i
    /\ pc = "done" => total = NumFiles

C25_Witness ==
    /\ pc = "done"
    /\ total = NumFiles
    /\ failed = 1
    /\ succeeded = 1
    /\ skipped_processed + skipped_existing = 1

\* ------------------------------------------------------- outcome entries
\* the files of this run that went into the try block and came out of it
WasEligible(f) == outcome[f] \in {"succeeded", "failed"}

\* C26: at every file boundary and at the end of a run, each file that was
\* eligible has exactly one line of this run in the two logs, a SUCCESS line
\* or an ERROR line; it has the SUCCESS line if and only if its path was
\* appended to the processed list in this run; a file that was skipped has
\* no line; and the numbers of SUCCESS and ERROR lines of the run are the
\* succeeded and failed counters.
C26_OneOutcomeEntry ==
    pc \in {"classify", "done"}
    => /\ \A f \in Files :
             WasEligible(f)
             => /\ Count(NewS, SuccessLine(f)) + Count(NewE, ErrorLine(f)) = 1
                /\ Count(NewS, SuccessLine(f)) = 1 <=> Count(NewP, f) = 1
       /\ \A f \in Files :
             ~WasEligible(f)
             => Count(NewS, SuccessLine(f)) + Count(NewE, ErrorLine(f)) = 0
       /\ Len(NewS) = succeeded
       /\ Len(NewE) = failed

\* --------------------------------------------- files sharing a base name
\* C27: a run that starts with an empty store and no output file, in which
\* no Transcriber call and no write fails and which is not interrupted,
\* transcribes every file itself: succeeded = total, skipped_existing = 0,
\* one Transcriber call per file, and the outputs a recorded file stands on
\* were written from that file; also when two files share directory and
\* base name.
C27_ArtifactsNotConfused ==
    (/\ pc = "done"
     /\ loaded = {}
     /\ \A b \in Bases : ExistingKinds(art0, b) = {}
     /\ failT = {} /\ failW = {})
    => /\ succeeded = total
       /\ skipped_existing = 0
       /\ \A f \in Files : calls[f] = 1
       /\ \A f \in Stored : \A k \in Kinds : art[base[f]][k].src = f

\* ------------------------------------------- repeated work in the window
\* C28: whatever the number of presses of the Start button and the
\* interleaving of the threads, no file has more than one SUCCESS line, one
\* for each time it was transcribed and written with success, and no path
\* is in the processed list more than once.
C28_NoDuplicateWorkInGui ==
    \A f \in Files :
        /\ Count(logS, SuccessLine(f)) <= 1
        /\ Count(plist, f) <= 1

====
